---- MODULE Spec2Model ----
(***************************************************************************)
(* Model of two real-time controllers of pr2_controllers:                  *)
(*   - GripperCalibrationController (gripper_calibration_controller.cpp)   *)
(*   - CartesianWrenchController    (cartesian_wrench_controller.cpp)      *)
(*                                                                         *)
(* Units.  Floating point quantities are scaled to integers:               *)
(*   joint velocity      : 1 unit = 0.00005   (0.0001 = 2 units)           *)
(*   robot time          : 1 unit = 0.25 s    (0.5 s  = 2 units)           *)
(*   positions, limits   : 1 unit = 0.1       (1.0 = 10, 1.5 = 15)         *)
(*   efforts, wrenches   : 1 unit = 0.1                                    *)
(***************************************************************************)
EXTENDS Integers, Sequences, FiniteSets

VARIABLES
  \* ---- GripperCalibrationController ----
  state_,              \* state_ : INITIALIZED .. CALIBRATED
  count_,              \* count_
  stop_count_,         \* stop_count_
  search_velocity_,    \* search_velocity_ (parameter "velocity")
  other_joints_,       \* other_joints_ : sequence of dependent joints
  calibrated_,         \* JointState::calibrated_ of every joint of the robot
  velocity_,           \* joint_->velocity_
  position_,           \* actuator_->state_.position_
  zero_offset_,        \* actuator_->state_.zero_offset_
  vc_command,          \* setpoint of the inner velocity servo vc_
  vc_updated,          \* whether the last update() invoked vc_.update()
  last_publish_time_,  \* last_publish_time_
  time,                \* last value returned by robot_->getTime()
  pubs,                \* history: robot times of the "calibrated" publications
  run,                 \* history: trailing run of low-velocity ticks in CLOSING
  warm,                \* history: ticks taken in STARTING since BEGINNING
  lock_result,         \* what pub_calibrated_->trylock() did on the last update()
  \* ---- CartesianWrenchController ----
  nrOfJoints,          \* kdl_chain_.getNrOfJoints()
  constraint_,         \* constraint_ : joint, soft_limit, hard_limit, stiffness
  wrench_desi_,        \* wrench_desi_ : force x,y,z (0..2), torque x,y,z (3..5)
  jnt_pos_,            \* jnt_pos_
  jacobian_,           \* jacobian_ : 6 rows, nrOfJoints columns
  jnt_eff_,            \* jnt_eff_
  efforts,             \* commanded effort of the chain's joints
  all_calibrated,      \* what chain_.allCalibrated() returned on the last update()
  wop,                 \* the operation of the wrench controller that ran last
  cmd_msg,             \* the message the running (or last) command() was given
  cmd_pc,              \* command(): 0 = not running, k = about to write component k-1
  old_wrench,          \* history: wrench_desi_ when the last command() was entered
  \* ---- GripperCalibrationController::init ----
  joint_,              \* joint_ : "NULL" or the primary joint's state
  actuator_,           \* actuator_ : "NULL" or the actuator
  params,              \* the parameters of node_ read by the last init()
  init_ok,             \* what the last init() returned
  inits                \* history: number of calls of init()

gvars == <<state_, count_, stop_count_, search_velocity_, other_joints_,
           calibrated_, velocity_, position_, zero_offset_, vc_command,
           vc_updated, last_publish_time_, time, pubs, run, warm, lock_result>>

wvars == <<nrOfJoints, constraint_, wrench_desi_, jnt_pos_, jacobian_, jnt_eff_,
           efforts, all_calibrated, wop, cmd_msg, cmd_pc, old_wrench>>

ivars == <<joint_, actuator_, params, init_ok, inits>>

vars == <<gvars, wvars, ivars>>

----------------------------------------------------------------------------
(* Bounds of the model *)

\* robot time is explored up to this many 0.25 s units
MaxTime == 7
\* init() is called at most this many times on one controller
MaxInits == 2

(* Program constants *)

\* STARTING: if (++count_ > 500)
WarmupTicks == 500
\* CLOSING: if (stop_count_ > 100)
DebounceTicks == 100
\* CLOSING: fabs(joint_->velocity_) < 0.0001, in velocity units
StallThreshold == 2
\* CALIBRATED: ros::Duration(0.5), in time units
PublishInterval == 2

(* Joints of the robot: joint 0 is the primary joint_, 1 and 2 may be listed *)
(* in the parameter "other_joints".                                          *)
PrimaryJoint == 0
Joints == {0, 1, 2}
OtherJointLists == {<<>>, <<1>>, <<1, 2>>}

\* values of the parameter "velocity"
SearchVelocities == {-1, 1}
\* joint velocity readings: fast backwards, slow, exactly at the threshold
Velocities == {-3, 1, 2}
\* raw actuator positions
Positions == {3, 5}
\* zero offsets an actuator may carry before calibration starts
InitialOffsets == {0, 7}

Abs(x) == IF x < 0 THEN -x ELSE x

InList(j, s) == \E i \in 1..Len(s) : s[i] = j

----------------------------------------------------------------------------
(* GripperCalibrationController::update, one operator per case of the switch *)

\* mutant: the first tick jumps straight to STARTING
CaseInitialized_skip ==
  /\ state_ = "INITIALIZED"
  /\ state_' = "STARTING"
  /\ UNCHANGED <<count_, stop_count_, calibrated_, zero_offset_, vc_command,
                 last_publish_time_, time, pubs>>

CaseInitialized ==
  /\ state_ = "INITIALIZED"
  /\ state_' = "BEGINNING"
  /\ UNCHANGED <<count_, stop_count_, calibrated_, zero_offset_, vc_command,
                 last_publish_time_, time, pubs>>

CaseBeginning ==
  /\ state_ = "BEGINNING"
  /\ count_' = 0
  /\ stop_count_' = 0
  /\ calibrated_' = [calibrated_ EXCEPT ![PrimaryJoint] = FALSE]
  /\ zero_offset_' = 0
  /\ vc_command' = search_velocity_
  /\ state_' = "STARTING"
  /\ UNCHANGED <<last_publish_time_, time, pubs>>

\* mutant: >= instead of >
WarmupDone_ge(c) == c >= WarmupTicks

WarmupDone(c) == c > WarmupTicks

CaseStarting ==
  /\ state_ = "STARTING"
  /\ IF WarmupDone(count_ + 1)
       THEN /\ count_' = 0
            /\ stop_count_' = 0
            /\ state_' = "CLOSING"
       ELSE /\ count_' = count_ + 1
            /\ UNCHANGED <<stop_count_, state_>>
  /\ UNCHANGED <<calibrated_, zero_offset_, vc_command,
                 last_publish_time_, time, pubs>>

\* mutant: the threshold is too small by one unit
Stalled_strict(v) == Abs(v) < StallThreshold - 1

\* mutant: the magnitude is not taken
Stalled_nofabs(v) == v < StallThreshold

Stalled(v) == Abs(v) < StallThreshold

\* mutant: a reading at or above the threshold does not reset the count
NextStopCount_noreset(sc, v) == IF Stalled(v) THEN sc + 1 ELSE sc

NextStopCount(sc, v) == IF Stalled(v) THEN sc + 1 ELSE 0

\* mutant: >= instead of >
DebounceDone_ge(sc) == sc >= DebounceTicks

DebounceDone(sc) == sc > DebounceTicks

\* mutant: the loop over other_joints_ is missing
MarkCalibrated_primary(cal, others) == [cal EXCEPT ![PrimaryJoint] = TRUE]

MarkCalibrated(cal, others) ==
  [j \in Joints |-> IF j = PrimaryJoint \/ InList(j, others) THEN TRUE ELSE cal[j]]

\* mutant: the event is published by the tick that completes the calibration
CaseClosing_publish ==
  /\ state_ = "CLOSING"
  /\ stop_count_' = NextStopCount(stop_count_, velocity_)
  /\ IF DebounceDone(stop_count_')
       THEN /\ zero_offset_' = position_
            /\ state_' = "CALIBRATED"
            /\ calibrated_' = MarkCalibrated(calibrated_, other_joints_)
            /\ vc_command' = 0
            /\ pubs' = Append(pubs, time)
       ELSE UNCHANGED <<zero_offset_, state_, calibrated_, vc_command, pubs>>
  /\ UNCHANGED <<count_, last_publish_time_, time>>

CaseClosing ==
  /\ state_ = "CLOSING"
  /\ stop_count_' = NextStopCount(stop_count_, velocity_)
  /\ IF DebounceDone(stop_count_')
       THEN /\ zero_offset_' = position_
            /\ state_' = "CALIBRATED"
            /\ calibrated_' = MarkCalibrated(calibrated_, other_joints_)
            /\ vc_command' = 0
       ELSE UNCHANGED <<zero_offset_, state_, calibrated_, vc_command>>
  /\ UNCHANGED <<count_, last_publish_time_, time, pubs>>

\* mutant: <= instead of <
PublishDue_le(last, now) == last + PublishInterval <= now

PublishDue(last, now) == last + PublishInterval < now

\* mutant: last_publish_time_ is written before trylock() is tried
CaseCalibrated_early(now, lockOk) ==
  /\ state_ = "CALIBRATED"
  /\ time' = now
  /\ IF PublishDue(last_publish_time_, now)
       THEN /\ last_publish_time_' = now
            /\ pubs' = IF lockOk THEN Append(pubs, now) ELSE pubs
       ELSE UNCHANGED <<last_publish_time_, pubs>>
  /\ UNCHANGED <<state_, count_, stop_count_, calibrated_, zero_offset_,
                 vc_command>>

CaseCalibrated(now, lockOk) ==
  /\ state_ = "CALIBRATED"
  /\ time' = now
  /\ IF PublishDue(last_publish_time_, now) /\ lockOk
       THEN /\ last_publish_time_' = now
            /\ pubs' = Append(pubs, now)
       ELSE UNCHANGED <<last_publish_time_, pubs>>
  /\ UNCHANGED <<state_, count_, stop_count_, calibrated_, zero_offset_,
                 vc_command>>

\* history: the trailing run of ticks taken in CLOSING with |velocity| < 0.0001
NextRun ==
  IF state_ = "CLOSING"
    THEN IF Abs(velocity_) < StallThreshold
           THEN (IF run <= DebounceTicks + 1 THEN run + 1 ELSE run)
           ELSE 0
    ELSE run

\* history: the ticks taken in STARTING, counted from the BEGINNING tick
NextWarm ==
  IF state_ = "BEGINNING" THEN 0
  ELSE IF state_ = "STARTING" /\ warm <= WarmupTicks + 1 THEN warm + 1
  ELSE warm

\* trylock() is called by a tick in CALIBRATED when the interval has elapsed;
\* lockOk is whether it gets the lock
TryLock(now, lockOk) ==
  IF state_ = "CALIBRATED" /\ last_publish_time_ + PublishInterval < now
    THEN (IF lockOk THEN "locked" ELSE "busy")
    ELSE "none"

\* mutant: vc_.update() is called by every tick
VcUpdateCalled_always(before, after) == TRUE

\* case INITIALIZED returns; after the switch: if (state_ != CALIBRATED) vc_.update()
VcUpdateCalled(before, after) == before # "INITIALIZED" /\ after # "CALIBRATED"

update(now, lockOk) ==
  /\ \/ CaseInitialized
     \/ CaseBeginning
     \/ CaseStarting
     \/ CaseClosing
     \/ CaseCalibrated(now, lockOk)
  /\ vc_updated' = VcUpdateCalled(state_, state_')
  /\ run' = NextRun
  /\ warm' = NextWarm
  /\ lock_result' = TryLock(now, lockOk)
  /\ UNCHANGED <<search_velocity_, other_joints_, velocity_, position_>>

Tick == \E now \in time..MaxTime, lockOk \in BOOLEAN : update(now, lockOk)

(* The mechanism: the joint and the actuator move between ticks *)
JointMoves ==
  /\ \E v \in Velocities : v # velocity_ /\ velocity_' = v
  /\ UNCHANGED <<state_, count_, stop_count_, search_velocity_, other_joints_,
                 calibrated_, position_, zero_offset_, vc_command, vc_updated,
                 last_publish_time_, time, pubs, run, warm, lock_result>>

ActuatorMoves ==
  /\ \E p \in Positions : p # position_ /\ position_' = p
  /\ UNCHANGED <<state_, count_, stop_count_, search_velocity_, other_joints_,
                 calibrated_, velocity_, zero_offset_, vc_command, vc_updated,
                 last_publish_time_, time, pubs, run, warm, lock_result>>

\* the controller after its constructor and a successful init()
GripperInit ==
  /\ state_ = "INITIALIZED"
  /\ count_ = 0
  /\ stop_count_ = 0
  /\ search_velocity_ \in SearchVelocities
  /\ other_joints_ \in OtherJointLists
  /\ calibrated_ \in [Joints -> BOOLEAN]
  /\ velocity_ \in Velocities
  /\ position_ \in Positions
  /\ zero_offset_ \in InitialOffsets
  /\ vc_command = 0
  /\ vc_updated = FALSE
  /\ last_publish_time_ = 0
  /\ time = 0
  /\ pubs = <<>>
  /\ run = 0
  /\ warm = 0
  /\ lock_result = "none"

----------------------------------------------------------------------------
(* GripperCalibrationController::init *)

\* in "other_joints" the names 1 and 2 are joints of the robot, 9 is not
\* what the parameter server holds under the controller's namespace and
\* whether vc_.init() succeeds: a complete set, and variations of it
GoodParams ==
  [has_velocity |-> TRUE, velocity |-> 1, joint |-> "known", actuator |-> "known",
   oj_kind |-> "missing", oj_names |-> <<>>, vc_ok |-> TRUE]

ParamSets ==
  { GoodParams,
    [GoodParams EXCEPT !.velocity = -1, !.oj_kind = "array", !.oj_names = <<1>>],
    [GoodParams EXCEPT !.oj_kind = "array", !.oj_names = <<9, 2>>],
    [GoodParams EXCEPT !.oj_kind = "not_array"],
    [GoodParams EXCEPT !.has_velocity = FALSE],
    [GoodParams EXCEPT !.joint = "missing"],
    [GoodParams EXCEPT !.joint = "unknown"],
    [GoodParams EXCEPT !.actuator = "missing"],
    [GoodParams EXCEPT !.actuator = "unknown"],
    [GoodParams EXCEPT !.vc_ok = FALSE] }

\* init() got past the velocity, joint and actuator lookups
PastLookups(p) == p.has_velocity /\ p.joint = "known" /\ p.actuator = "known"

\* the entries of "other_joints" that robot->getJointState() finds
ResolvedJoints(names) == SelectSeq(names, LAMBDA x : x \in Joints)

init(p) ==
  /\ inits < MaxInits
  /\ inits' = inits + 1
  /\ params' = p
  /\ search_velocity_' = IF p.has_velocity THEN p.velocity ELSE search_velocity_
  /\ joint_' = IF ~p.has_velocity \/ p.joint = "missing" THEN joint_
               ELSE IF p.joint = "unknown" THEN "NULL" ELSE "joint"
  /\ actuator_' = IF ~p.has_velocity \/ p.joint # "known" \/ p.actuator = "missing"
                    THEN actuator_
                    ELSE IF p.actuator = "unknown" THEN "NULL" ELSE "actuator"
  /\ other_joints_' = IF PastLookups(p) /\ p.oj_kind = "array"
                        THEN other_joints_ \o ResolvedJoints(p.oj_names)
                        ELSE other_joints_
  /\ init_ok' = (PastLookups(p) /\ p.vc_ok)
  /\ UNCHANGED <<state_, count_, stop_count_, calibrated_, velocity_, position_,
                 zero_offset_, vc_command, vc_updated, last_publish_time_, time,
                 pubs, run, warm, lock_result>>

InitCall == \E p \in ParamSets : init(p)

\* the controller after its constructor, before init()
Constructed ==
  /\ state_ = "INITIALIZED"
  /\ count_ = 0
  /\ stop_count_ = 0
  /\ search_velocity_ = 1
  /\ other_joints_ = <<>>
  /\ calibrated_ \in {[j \in Joints |-> FALSE], [j \in Joints |-> TRUE]}
  /\ velocity_ \in Velocities
  /\ position_ \in Positions
  /\ zero_offset_ = 0
  /\ vc_command = 0
  /\ vc_updated = FALSE
  /\ last_publish_time_ = 0
  /\ time = 0
  /\ pubs = <<>>
  /\ run = 0
  /\ warm = 0
  /\ lock_result = "none"
  /\ joint_ = "NULL"
  /\ actuator_ = "NULL"
  /\ params = GoodParams
  /\ init_ok = FALSE
  /\ inits = 0

\* init() has been called once and succeeded
InitDone ==
  /\ joint_ = "joint"
  /\ actuator_ = "actuator"
  /\ params = GoodParams
  /\ init_ok = TRUE
  /\ inits = 1

----------------------------------------------------------------------------
(* CartesianWrenchController *)

\* number of joints of the configured chain
ChainSizes == {2, 6}

Rows == 0..5

Cols(n) == 0..(n - 1)

ZeroWrench == [j \in Rows |-> 0]

ZeroVector(n) == [i \in Cols(n) |-> 0]

\* wrench messages: (1,0,0,0,0,0) and one with several components set
Msg1 == [j \in Rows |-> IF j = 0 THEN 10 ELSE 0]
Msg2 == [j \in Rows |-> CASE j = 0 -> -10 [] j = 1 -> 20 [] j = 5 -> 30 [] OTHER -> 0]
Messages == {Msg1, Msg2}

\* the parameters constraint/joint, soft_limit, hard_limit, stiffness:
\* the defaults, and bands in both directions
DefaultConstraint == [joint |-> -1, soft_limit |-> 0, hard_limit |-> 0, stiffness |-> 0]
Constraints ==
  { DefaultConstraint,
    [joint |-> 0, soft_limit |-> 10, hard_limit |-> 15, stiffness |-> 10],
    [joint |-> 0, soft_limit |-> 15, hard_limit |-> 10, stiffness |-> 10],
    [joint |-> 2, soft_limit |-> 10, hard_limit |-> 15, stiffness |-> 5],
    [joint |-> 0, soft_limit |-> 10, hard_limit |-> 10, stiffness |-> 10] }

\* joint positions the chain reports: even joints at p, odd joints at q
EvenPositions == {9, 10, 12, 15, 16}
OddPositions == {11}
PositionVectors(n) ==
  { [i \in Cols(n) |-> IF i % 2 = 0 THEN p ELSE q] :
      p \in EvenPositions, q \in OddPositions }

\* Jacobians the solver returns: the identity pattern and a non-symmetric one
JacIdentity(n) == [j \in Rows, i \in Cols(n) |-> IF i = j THEN 1 ELSE 0]
JacSkew(n) ==
  [j \in Rows, i \in Cols(n) |-> IF i = j THEN 1 ELSE IF j = i + 1 THEN 2
                                 ELSE IF j = 5 THEN -1 ELSE 0]
Jacobians(n) == {JacIdentity(n), JacSkew(n)}

\* KDL's sign(): -1 below zero, 1 otherwise
sign(x) == IF x < 0 THEN -1 ELSE 1

\* mutant: the loop over the wrench components stops one short (j < 5)
JointEffort_short(jac, w, i) ==
  0 + jac[0, i] * w[0] + jac[1, i] * w[1] + jac[2, i] * w[2]
    + jac[3, i] * w[3] + jac[4, i] * w[4]

\* jnt_eff_(i) = 0; for j < 6: jnt_eff_(i) += jacobian_(j,i) * wrench_desi_(j)
JointEffort(jac, w, i) ==
  0 + jac[0, i] * w[0] + jac[1, i] * w[1] + jac[2, i] * w[2]
    + jac[3, i] * w[3] + jac[4, i] * w[4] + jac[5, i] * w[5]

Project(jac, w, n) == [i \in Cols(n) |-> JointEffort(jac, w, i)]

\* mutant: the spring is added beyond the hard limit too
HardBranch_add(eff, c, p) == eff + c.stiffness * (c.soft_limit - p)

\* beyond the hard limit: the effort of the joint is replaced
HardBranch(eff, c, p) == c.stiffness * (c.soft_limit - p)

\* mutant: the spring pushes the wrong way
SoftBranch_flip(eff, c, p) == eff + c.stiffness * (p - c.soft_limit)

\* between the limits: the spring is added to the effort of the joint
SoftBranch(eff, c, p) == eff + c.stiffness * (c.soft_limit - p)

\* mutant: a position exactly at the hard limit is overridden too (<= for <)
ApplyConstraint_le(eff, pos, c, n) ==
  IF c.joint >= 0 /\ c.joint < n
    THEN LET k == c.joint
             sgn == sign(c.hard_limit - c.soft_limit)
         IN  IF sgn * (c.hard_limit - pos[k]) <= 0
               THEN [eff EXCEPT ![k] = HardBranch(eff[k], c, pos[k])]
               ELSE IF sgn * (c.soft_limit - pos[k]) < 0
                      THEN [eff EXCEPT ![k] = SoftBranch(eff[k], c, pos[k])]
                      ELSE eff
    ELSE eff

ApplyConstraint(eff, pos, c, n) ==
  IF c.joint >= 0 /\ c.joint < n
    THEN LET k == c.joint
             sgn == sign(c.hard_limit - c.soft_limit)
         IN  IF sgn * (c.hard_limit - pos[k]) < 0
               THEN [eff EXCEPT ![k] = HardBranch(eff[k], c, pos[k])]
               ELSE IF sgn * (c.soft_limit - pos[k]) < 0
                      THEN [eff EXCEPT ![k] = SoftBranch(eff[k], c, pos[k])]
                      ELSE eff
    ELSE eff

\* mutant: the calibration check is missing
SkipTick_never(cal) == FALSE

\* if (!chain_.allCalibrated()) return;
SkipTick(cal) == ~cal

\* CartesianWrenchController::update; cal, pos and jac are what
\* chain_.allCalibrated(), chain_.getPositions() and JntToJac() deliver
wrench_update(cal, pos, jac) ==
  /\ all_calibrated' = cal
  /\ wop' = "update"
  /\ IF SkipTick(cal)
       THEN UNCHANGED <<jnt_pos_, jacobian_, jnt_eff_, efforts>>
       ELSE /\ jnt_pos_' = pos
            /\ jacobian_' = jac
            /\ jnt_eff_' = ApplyConstraint(Project(jac, wrench_desi_, nrOfJoints),
                                           pos, constraint_, nrOfJoints)
            /\ efforts' = jnt_eff_'
  /\ UNCHANGED <<nrOfJoints, constraint_, wrench_desi_, cmd_msg, cmd_pc, old_wrench>>

WrenchTick ==
  \E cal \in BOOLEAN, pos \in PositionVectors(nrOfJoints), jac \in Jacobians(nrOfJoints) :
    wrench_update(cal, pos, jac)

\* CartesianWrenchController::command runs in the subscriber's callback thread:
\* it is entered with a message and then writes wrench_desi_ one component at
\* a time, with update() of the real-time thread free to run in between
CommandEnter ==
  /\ cmd_pc = 0
  /\ \E m \in Messages : cmd_msg' = m
  /\ cmd_pc' = 1
  /\ old_wrench' = wrench_desi_
  /\ wop' = "command"
  /\ UNCHANGED <<nrOfJoints, constraint_, wrench_desi_, jnt_pos_, jacobian_,
                 jnt_eff_, efforts, all_calibrated>>

CommandWrite ==
  /\ cmd_pc > 0
  /\ wrench_desi_' = [wrench_desi_ EXCEPT ![cmd_pc - 1] = cmd_msg[cmd_pc - 1]]
  /\ cmd_pc' = IF cmd_pc = 6 THEN 0 ELSE cmd_pc + 1
  /\ wop' = "command"
  /\ UNCHANGED <<nrOfJoints, constraint_, jnt_pos_, jacobian_, jnt_eff_, efforts,
                 all_calibrated, cmd_msg, old_wrench>>

\* the controller after init() and starting()
WrenchInit ==
  /\ nrOfJoints \in ChainSizes
  /\ constraint_ \in Constraints
  /\ wrench_desi_ = ZeroWrench
  /\ jnt_pos_ = ZeroVector(nrOfJoints)
  /\ jacobian_ = [j \in Rows, i \in Cols(nrOfJoints) |-> 0]
  /\ jnt_eff_ = ZeroVector(nrOfJoints)
  /\ efforts = ZeroVector(nrOfJoints)
  /\ all_calibrated = FALSE
  /\ wop = "starting"
  /\ cmd_msg = ZeroWrench
  /\ cmd_pc = 0
  /\ old_wrench = ZeroWrench

----------------------------------------------------------------------------
(* Specifications: each controller is an independent instance; Spec runs the *)
(* calibration controller, WrenchSpec the wrench controller.                 *)

\* the wrench controller of a robot on which only the calibration runs
WrenchIdle ==
  /\ nrOfJoints = 2
  /\ constraint_ = DefaultConstraint
  /\ wrench_desi_ = ZeroWrench
  /\ jnt_pos_ = ZeroVector(2)
  /\ jacobian_ = [j \in Rows, i \in Cols(2) |-> 0]
  /\ jnt_eff_ = ZeroVector(2)
  /\ efforts = ZeroVector(2)
  /\ all_calibrated = FALSE
  /\ wop = "starting"
  /\ cmd_msg = ZeroWrench
  /\ cmd_pc = 0
  /\ old_wrench = ZeroWrench

\* the calibration controller of a robot on which only the wrench controller runs
GripperIdle ==
  /\ state_ = "INITIALIZED"
  /\ count_ = 0
  /\ stop_count_ = 0
  /\ search_velocity_ = 1
  /\ other_joints_ = <<>>
  /\ calibrated_ = [j \in Joints |-> FALSE]
  /\ velocity_ = 1
  /\ position_ = 3
  /\ zero_offset_ = 0
  /\ vc_command = 0
  /\ vc_updated = FALSE
  /\ last_publish_time_ = 0
  /\ time = 0
  /\ pubs = <<>>
  /\ run = 0
  /\ warm = 0
  /\ lock_result = "none"

Init == GripperInit /\ InitDone /\ WrenchIdle

Next ==
  \/ Tick /\ UNCHANGED <<wvars, ivars>>
  \/ JointMoves /\ UNCHANGED <<wvars, ivars>>
  \/ ActuatorMoves /\ UNCHANGED <<wvars, ivars>>

\* the life of one controller object: init() may be called again at any
\* time; update() is called only while the last init() has succeeded
LifeInit == Constructed /\ WrenchIdle

LifeNext ==
  \/ InitCall /\ UNCHANGED wvars
  \/ init_ok /\ Tick /\ UNCHANGED <<wvars, ivars>>
  \/ JointMoves /\ UNCHANGED <<wvars, ivars>>
  \/ ActuatorMoves /\ UNCHANGED <<wvars, ivars>>

LifeSpec == LifeInit /\ [][LifeNext]_vars

Spec == Init /\ [][Next]_vars

\* a tick in CALIBRATED at a robot time past the publish interval whose
\* trylock() succeeds
PublishingTick ==
  /\ state_ = "CALIBRATED"
  /\ \E now \in time..MaxTime :
       PublishDue(last_publish_time_, now) /\ update(now, TRUE)

\* the controller manager calls update() in every control cycle; robot time
\* advances and the publisher's lock is not held for ever
LiveSpec ==
  /\ Init
  /\ [][Next]_vars
  /\ WF_vars(Tick /\ UNCHANGED <<wvars, ivars>>)
  /\ WF_vars(PublishingTick /\ UNCHANGED <<wvars, ivars>>)

WrenchStart == WrenchInit /\ GripperIdle /\ InitDone

WrenchNext ==
  \/ WrenchTick /\ UNCHANGED <<gvars, ivars>>
  \/ CommandEnter /\ UNCHANGED <<gvars, ivars>>
  \/ CommandWrite /\ UNCHANGED <<gvars, ivars>>

WrenchSpec == WrenchStart /\ [][WrenchNext]_vars

----------------------------------------------------------------------------
(* Properties of GripperCalibrationController *)

Ord(s) ==
  CASE s = "INITIALIZED" -> 0
    [] s = "BEGINNING"   -> 1
    [] s = "STARTING"    -> 2
    [] s = "CLOSING"     -> 3
    [] s = "CALIBRATED"  -> 4

\* C1: every change of state_ goes to the immediate successor in the order
\* INITIALIZED, BEGINNING, STARTING, CLOSING, CALIBRATED: no state is skipped
\* and none is entered again.
C1_StateOrder == [][state_' # state_ => Ord(state_') = Ord(state_) + 1]_vars

C1_Witness == state_ = "CALIBRATED" /\ Len(pubs) > 0

\* C2 as stated: in CLOSING the transition to CALIBRATED happens exactly on
\* the 100th consecutive tick with |velocity| < 0.0001, and that tick stores
\* the actuator position in the zero offset.
C2_Original ==
  [][state_ = "CLOSING" =>
       /\ (state_' = "CALIBRATED") <=> (run = DebounceTicks - 1 /\ run' = DebounceTicks)
       /\ (state_' = "CALIBRATED") => (zero_offset_' = position_)]_vars

\* C2 amended: in CLOSING the transition to CALIBRATED happens exactly on the
\* 101st consecutive tick with |velocity| < 0.0001 (stop_count_ must exceed
\* 100), and that tick stores the actuator position read on it in the zero
\* offset.
C2_Transition101 ==
  [][state_ = "CLOSING" =>
       /\ (state_' = "CALIBRATED") <=> (run = DebounceTicks /\ run' = DebounceTicks + 1)
       /\ (state_' = "CALIBRATED") => (zero_offset_' = position_ /\ position_' = position_)]_vars

C2_Witness ==
  state_ = "CALIBRATED" /\ run = DebounceTicks + 1 /\ zero_offset_ \in Positions

\* C3: a tick in CLOSING that does not complete a run of 100 consecutive
\* low-velocity ticks leaves state_ = CLOSING, the zero offset and every
\* calibration flag untouched; so without such a run CLOSING is never left.
C3_StaysClosing ==
  [][state_ = "CLOSING" /\ run' < DebounceTicks =>
       /\ state_' = "CLOSING"
       /\ zero_offset_' = zero_offset_
       /\ calibrated_' = calibrated_]_vars

C3_Witness ==
  /\ state_ = "CLOSING"
  /\ run = DebounceTicks - 1
  /\ velocity_ = StallThreshold
  /\ zero_offset_ = 0

\* C4: whenever state_ = CALIBRATED the primary joint and every joint of
\* other_joints_ are calibrated and the inner servo's setpoint is 0.
C4_CalibratedFlags ==
  state_ = "CALIBRATED" =>
    /\ calibrated_[PrimaryJoint]
    /\ \A i \in 1..Len(other_joints_) : calibrated_[other_joints_[i]]
    /\ vc_command = 0

C4_Witness ==
  /\ state_ = "CALIBRATED"
  /\ Len(other_joints_) = 2
  /\ search_velocity_ # 0
  /\ time > 0

\* C5: any two publications of the "calibrated" event are more than 0.5 s of
\* robot time apart.
C5_PublishSpacing ==
  \A i \in 1..Len(pubs) : \A j \in 1..Len(pubs) :
    i < j => pubs[j] - pubs[i] > PublishInterval

C5_Witness == Len(pubs) >= 2

----------------------------------------------------------------------------
(* Properties of CartesianWrenchController *)

\* an update() that got past the calibration check ran last
Projected == wop = "update" /\ all_calibrated

ValidConstraint == constraint_.joint >= 0 /\ constraint_.joint < nrOfJoints

\* the position lies strictly beyond the hard limit, seen from the soft limit
BeyondHard(c, p) ==
  \/ c.hard_limit > c.soft_limit /\ p > c.hard_limit
  \/ c.hard_limit < c.soft_limit /\ p < c.hard_limit

\* the position lies strictly past the soft limit and not past the hard limit
InSoftBand(c, p) ==
  \/ c.hard_limit > c.soft_limit /\ p > c.soft_limit /\ p <= c.hard_limit
  \/ c.hard_limit < c.soft_limit /\ p < c.soft_limit /\ p >= c.hard_limit

\* the position lies strictly past the soft limit
PastSoft(c, p) ==
  \/ c.hard_limit >= c.soft_limit /\ p > c.soft_limit
  \/ c.hard_limit < c.soft_limit /\ p < c.soft_limit

RECURSIVE SumRows(_, _, _, _)
SumRows(jac, w, i, j) ==
  IF j < 0 THEN 0 ELSE jac[j, i] * w[j] + SumRows(jac, w, i, j - 1)

\* Jacobian transpose times the desired wrench, for joint i
TaskEffort(i) == SumRows(jacobian_, wrench_desi_, i, 5)

\* C6: an update() on a chain that is not fully calibrated changes no joint
\* effort and nothing else of the controller, whatever the desired wrench and
\* the constraint are, and however often it is repeated.
C6_UncalibratedNoEffort ==
  [][wop' = "update" /\ ~all_calibrated' =>
       /\ efforts' = efforts
       /\ jnt_eff_' = jnt_eff_
       /\ jnt_pos_' = jnt_pos_
       /\ jacobian_' = jacobian_
       /\ wrench_desi_' = wrench_desi_]_vars

C6_Witness ==
  /\ wop = "update"
  /\ ~all_calibrated
  /\ efforts # ZeroVector(nrOfJoints)
  /\ wrench_desi_ = Msg2
  /\ ValidConstraint

\* C7: the wrench an update() projects is the one of a single command
\* message: the value wrench_desi_ had when the last command() was entered,
\* or that command's message, never a mixture of the two.
C7_WholeWrench == Projected => wrench_desi_ \in {old_wrench, cmd_msg}

\* C8: after an update() of a calibrated chain with a valid constraint joint k
\* whose position is strictly beyond the hard limit, the effort of k is
\* stiffness * (soft_limit - position[k]), whatever the wrench and Jacobian.
C8_HardOverride ==
  Projected /\ ValidConstraint /\ BeyondHard(constraint_, jnt_pos_[constraint_.joint]) =>
    efforts[constraint_.joint] =
      constraint_.stiffness * (constraint_.soft_limit - jnt_pos_[constraint_.joint])

\* soft = 1.0, hard = 1.5, stiffness = 10, position = 1.6 give -6.0 although
\* the task effort of the joint is 1.0
C8_Witness ==
  /\ Projected
  /\ constraint_ = [joint |-> 0, soft_limit |-> 10, hard_limit |-> 15, stiffness |-> 10]
  /\ jnt_pos_[0] = 16
  /\ TaskEffort(0) = 10
  /\ efforts[0] = -60

\* C9: after an update() of a calibrated chain with a valid constraint joint k
\* whose position is strictly past the soft limit and not past the hard
\* limit, the effort of k is the Jacobian-transpose projection of the desired
\* wrench plus stiffness * (soft_limit - position[k]).
C9_SoftSpring ==
  Projected /\ ValidConstraint /\ InSoftBand(constraint_, jnt_pos_[constraint_.joint]) =>
    efforts[constraint_.joint] =
      TaskEffort(constraint_.joint)
        + constraint_.stiffness * (constraint_.soft_limit - jnt_pos_[constraint_.joint])

\* soft = 1.0, hard = 1.5, stiffness = 10, position = 1.2 give task effort - 2.0
C9_Witness ==
  /\ Projected
  /\ constraint_ = [joint |-> 0, soft_limit |-> 10, hard_limit |-> 15, stiffness |-> 10]
  /\ jnt_pos_[0] = 12
  /\ TaskEffort(0) = 10
  /\ efforts[0] = -10

\* C10: after an update() of a calibrated chain on which the constraint is
\* not active (no valid constraint joint, or its position not past the soft
\* limit) the effort of every joint i is the sum over the six wrench
\* components j of J[j][i] * W[j], whatever the efforts were before.
C10_TransposeProjection ==
  Projected /\ ~(ValidConstraint /\ PastSoft(constraint_, jnt_pos_[constraint_.joint])) =>
    \A i \in Cols(nrOfJoints) : efforts[i] = TaskEffort(i)

\* six joints, identity Jacobian, wrench (1,0,0,0,0,0): effort (1,0,0,0,0,0)
C10_Witness ==
  /\ Projected
  /\ constraint_ = DefaultConstraint
  /\ nrOfJoints = 6
  /\ jacobian_ = JacIdentity(6)
  /\ wrench_desi_ = Msg1
  /\ efforts = [i \in Cols(6) |-> IF i = 0 THEN 10 ELSE 0]
  /\ jnt_eff_ = efforts

----------------------------------------------------------------------------
(* Further properties of GripperCalibrationController *)

AllMarked ==
  /\ calibrated_[PrimaryJoint]
  /\ \A i \in 1..Len(other_joints_) : calibrated_[other_joints_[i]]

\* C13: in STARTING and CLOSING neither the primary joint nor any joint of
\* other_joints_ is calibrated, because the BEGINNING tick cleared the flag
\* of the primary joint and of every dependent joint.
C13_AllFlagsCleared ==
  state_ \in {"STARTING", "CLOSING"} =>
    /\ ~calibrated_[PrimaryJoint]
    /\ \A i \in 1..Len(other_joints_) : ~calibrated_[other_joints_[i]]
    /\ zero_offset_ = 0
    /\ vc_command = search_velocity_

\* C14: a tick in CALIBRATED whose trylock() fails publishes nothing and
\* leaves last_publish_time_ unchanged, with the interval still elapsed;
\* last_publish_time_ changes only on a tick that publishes, to the time of
\* that tick; the tick on which trylock() succeeds after a failure publishes.
C14_BusySkipsPublish ==
  [][/\ lock_result' = "busy" =>
          /\ pubs' = pubs
          /\ last_publish_time_' = last_publish_time_
          /\ last_publish_time_' + PublishInterval < time'
     /\ last_publish_time_' # last_publish_time_ =>
          /\ lock_result' = "locked"
          /\ pubs' = Append(pubs, time')
          /\ last_publish_time_' = time'
     /\ lock_result = "busy" /\ lock_result' = "locked" =>
          pubs' = Append(pubs, time')]_vars

C14_Witness ==
  /\ state_ = "CALIBRATED"
  /\ lock_result = "busy"
  /\ pubs = <<>>
  /\ last_publish_time_ = 0

\* C15: every publication is made by a tick that starts in CALIBRATED, with
\* the zero offset already taken from the actuator and the primary and all
\* dependent joints already marked calibrated.
C15_PublishOnlyCalibrated ==
  [][pubs' # pubs =>
       /\ state_ = "CALIBRATED"
       /\ AllMarked
       /\ zero_offset_ \in Positions]_vars

C15_Witness ==
  /\ Len(pubs) = 1
  /\ state_ = "CALIBRATED"
  /\ Len(other_joints_) = 1
  /\ lock_result = "locked"

\* C16: STARTING is left by exactly the 501st tick taken in it, whatever the
\* joint velocity is, and CLOSING is entered with count_ = 0, stop_count_ = 0.
C16_WarmupLength ==
  [][state_ = "STARTING" =>
       /\ (state_' = "CLOSING") <=> (warm = WarmupTicks /\ warm' = WarmupTicks + 1)
       /\ state_' \in {"STARTING", "CLOSING"}
       /\ (state_' = "CLOSING") => (count_' = 0 /\ stop_count_' = 0 /\ run' = 0)]_vars

C16_Witness ==
  /\ state_ = "CLOSING"
  /\ warm = WarmupTicks + 1
  /\ count_ = 0
  /\ stop_count_ = 0
  /\ velocity_ = 1

\* C17: in STARTING 0 <= count_ <= 500 and stop_count_ = 0; in CLOSING
\* stop_count_ is the length of the trailing run of ticks with
\* |velocity| < 0.0001 since CLOSING was entered and is at most 100.
C17_Counters ==
  /\ state_ = "STARTING" => (0 <= count_ /\ count_ <= WarmupTicks /\ stop_count_ = 0)
  /\ state_ = "CLOSING" => (stop_count_ = run /\ stop_count_ <= DebounceTicks)

C17_Witness ==
  /\ state_ = "CLOSING"
  /\ stop_count_ = DebounceTicks
  /\ velocity_ = -3

\* C18: a tick that starts in CALIBRATED changes neither state_, the zero
\* offset, the calibration flags, the servo setpoint nor the counters and
\* does not call vc_.update(); vc_.update() is called by exactly the ticks
\* that end in STARTING or CLOSING.
C18_CalibratedQuiescent ==
  [][/\ state_ = "CALIBRATED" =>
          /\ state_' = "CALIBRATED"
          /\ zero_offset_' = zero_offset_
          /\ calibrated_' = calibrated_
          /\ vc_command' = vc_command
          /\ count_' = count_
          /\ stop_count_' = stop_count_
          /\ ~vc_updated'
     /\ vc_updated' = (state_' \in {"STARTING", "CLOSING"})]_vars

C18_Witness ==
  /\ state_ = "CALIBRATED"
  /\ ~vc_updated
  /\ Len(pubs) = 2
  /\ stop_count_ = DebounceTicks + 1

----------------------------------------------------------------------------
(* Further properties of CartesianWrenchController *)

\* C20: after an update() of a calibrated chain the effort of every joint
\* other than a valid constraint joint k is the Jacobian-transpose
\* projection; so is the effort of k when the constraint index is out of
\* range or the position of k is not strictly past the soft limit; and with
\* the position of k exactly at the hard limit the spring is added to the
\* projection, not substituted for it.
C20_ConstraintFrame ==
  Projected =>
    /\ \A i \in Cols(nrOfJoints) :
         (~ValidConstraint \/ i # constraint_.joint) => efforts[i] = TaskEffort(i)
    /\ (ValidConstraint /\ ~PastSoft(constraint_, jnt_pos_[constraint_.joint])) =>
         efforts[constraint_.joint] = TaskEffort(constraint_.joint)
    /\ (ValidConstraint /\ jnt_pos_[constraint_.joint] = constraint_.hard_limit) =>
         efforts[constraint_.joint] =
           TaskEffort(constraint_.joint)
             + constraint_.stiffness
                 * (constraint_.soft_limit - jnt_pos_[constraint_.joint])

\* position at the hard limit 1.5: the spring -5.0 is added to the task
\* effort of joint 0, the other joint keeps its task effort
C20_Witness ==
  /\ Projected
  /\ constraint_ = [joint |-> 0, soft_limit |-> 10, hard_limit |-> 15, stiffness |-> 10]
  /\ jnt_pos_[0] = 15
  /\ TaskEffort(0) # 0
  /\ efforts[0] = TaskEffort(0) - 50
  /\ efforts[1] # 0

----------------------------------------------------------------------------
(* Liveness of GripperCalibrationController *)

\* C19: if the controller keeps being ticked and from some point on the
\* joint velocity magnitude is below 0.0001, the controller eventually
\* reaches CALIBRATED, and with robot time advancing and trylock()
\* eventually succeeding the "calibrated" event is eventually published.
C19_EventuallyCalibrated ==
  (<>[](Abs(velocity_) < StallThreshold)) =>
     (<>(state_ = "CALIBRATED") /\ <>(Len(pubs) > 0))

C19_Witness ==
  /\ state_ = "CALIBRATED"
  /\ Len(pubs) > 0
  /\ Abs(velocity_) < StallThreshold
  /\ warm = WarmupTicks + 1
  /\ run = DebounceTicks + 1

----------------------------------------------------------------------------
(* Properties of GripperCalibrationController::init *)

\* the list that the parameter "other_joints" configures
ConfiguredJoints(p) ==
  IF p.oj_kind = "array" THEN ResolvedJoints(p.oj_names) ELSE <<>>

\* C11: a successful init() on a controller that has been ticked out of
\* INITIALIZED leaves state_ = INITIALIZED, count_ = 0, stop_count_ = 0 and
\* other_joints_ equal to the configured list.
C11_ReinitResets ==
  [][inits >= 1 /\ inits' = inits + 1 /\ state_ # "INITIALIZED" /\ init_ok' =>
       /\ state_' = "INITIALIZED"
       /\ count_' = 0
       /\ stop_count_' = 0
       /\ other_joints_' = ConfiguredJoints(params')]_vars

\* an initialization-time error that is to be fatal: a missing velocity,
\* joint or actuator parameter, an unresolvable joint or actuator name, an
\* "other_joints" value that is not an array
FatalError(p) ==
  \/ ~p.has_velocity
  \/ p.joint # "known"
  \/ p.actuator # "known"
  \/ p.oj_kind = "not_array"

\* C12: init() returns failure for every fatal initialization-time error,
\* while an unresolvable entry of a well-formed "other_joints" list is only
\* skipped: the entries that resolve are added and init() goes on.
C12_InitErrorsFatal ==
  [][inits' = inits + 1 =>
       /\ FatalError(params') => ~init_ok'
       /\ (~FatalError(params') /\ params'.oj_kind = "array") =>
            /\ other_joints_' = other_joints_ \o ResolvedJoints(params'.oj_names)
            /\ init_ok' = params'.vc_ok]_vars

====
